---- MODULE Spec2Model ----
(***************************************************************************)
(* mshadow/tensor_random.h: the random engines Random<cpu> (stdlib path:   *)
(* srand/rand, Box-Muller) and Random<gpu> (curand), their scratch buffer  *)
(* and the temporaries carved out of it.                                   *)
(*                                                                         *)
(* Numbers.  index_t is an unsigned integer of IndexBits bits; real_t is a *)
(* binary floating-point number with RealBits bits of significand and      *)
(* round-to-nearest-even; double has DoubleBits bits.  A floating-point    *)
(* value v is held as the integer v * Scale.  rand() returns 0..RAND_MAX.  *)
(* The widths are scaled down from 32 / 24 / 53 / 31 bits and keep their   *)
(* order: RAND_MAX needs more bits than real_t's significand holds.        *)
(***************************************************************************)
EXTENDS Integers, Sequences, FiniteSets, TLC

\* ------------------------------------------------------------- bounds
IndexBits == 4
RealBits == 3
RandBits == 4
MaxCalls == 2
MaxAttempts == 3

IndexMod == 2^IndexBits
DoubleBits == 2 * RealBits + 1
\* values below 2^-FracBits are rounded to multiples of it (gradual underflow)
FracBits == RealBits + 8
Scale == 2^FracBits
RAND_MAX == 2^RandBits - 1

\* ------------------------------------------------- floating point
Abs(n) == IF n < 0 THEN -n ELSE n
Sign(n) == IF n < 0 THEN -1 ELSE 1
Max(a, b) == IF a > b THEN a ELSE b

RECURSIVE BitLen(_)
BitLen(n) == IF n = 0 THEN 0 ELSE 1 + BitLen(n \div 2)

\* the integer nearest to q + r/D (0 <= r < D), ties to even
NearestEven(q, r, D) ==
    IF 2 * r > D \/ (2 * r = D /\ q % 2 = 1) THEN q + 1 ELSE q

\* N/M rounded to a multiple of 2^e
RoundAt(N, M, e) == NearestEven(N \div (M * 2^e), N % (M * 2^e), M * 2^e) * 2^e

\* N/M (N >= 0, M > 0), in units of 1/Scale, rounded to p significant bits,
\* ties to even: the bits of the quotient beyond p are rounded away
RoundMag(N, M, p) == RoundAt(N, M, Max(BitLen(N \div M) - p, 0))

Round(N, M, p) == Sign(N) * RoundMag(Abs(N), M, p)

\* static_cast<real_t>(int)
ToReal(i) == Round(i * Scale, 1, RealBits)
\* real_t arithmetic
RAdd(x, y) == Round(x + y, 1, RealBits)
RSub(x, y) == Round(x - y, 1, RealBits)
RMul(x, y) == Round(x * y, Scale, RealBits)
RDiv(x, y) == Round(x * Scale, y, RealBits)
\* double arithmetic (a real_t operand converts exactly), and the narrowing
\* conversion of a double result to real_t
DAdd(x, y) == Round(x + y, 1, DoubleBits)
DDiv(x, y) == Round(x * Scale, y, DoubleBits)
DToReal(x) == Round(x, 1, RealBits)

\* ------------------------------------------------- uniform source
\* static_cast<real_t>(rand()) / (static_cast<real_t>(RAND_MAX)+1.0f)
RandNext(r) == RDiv(ToReal(r), RAdd(ToReal(RAND_MAX), ToReal(1)))

\* (static_cast<real_t>(rand()) + 1.0) / (static_cast<real_t>(RAND_MAX) + 2.0)
RandNext2(r) ==
    DToReal(DDiv(DAdd(ToReal(r), 1 * Scale), DAdd(ToReal(RAND_MAX), 2 * Scale)))

\* mat[i][j] = this->RandNext()*(b-a) + a
UniformValue(r, a, b) == RAdd(RMul(RandNext(r), RSub(b, a)), a)

\* shape.stride_ = ((shape[0] + 3) >> 2) << 2, in index_t arithmetic
PadStride(shape0) == ((((shape0 + 3) % IndexMod) \div 4) * 4) % IndexMod

\* ------------------------------------------------- libc generator
\* srand(seed) and rand(): one hidden state per process, a full-period
\* congruential generator over 0..RAND_MAX
srand(seed) == seed % (RAND_MAX + 1)
rand(s) == (5 * s + 1) % (RAND_MAX + 1)

\* ------------------------------------------------- Box-Muller
\* 2.0f * RandNext2() - 1.0f
Coord(r) == RSub(RMul(2 * Scale, RandNext2(r)), 1 * Scale)
\* s = x*x + y*y
SumSq(x, y) == RAdd(RMul(x, x), RMul(y, y))
\* variant of the loop condition: s == 0.0f is not tested
RetryAboveOne(s) == s >= 1 * Scale
\* the loop condition: s >= 1.0f || s == 0.0f
Retry(s) == s >= 1 * Scale \/ s = 0

\* one pass through the body of SampleNormal2D's loop: the point (x, y), s,
\* and the generator state r2 left by the two draws
AttemptAt(x, y, r2) == [x |-> x, y |-> y, s |-> SumSq(x, y), rs |-> r2]

Attempt(rs) == AttemptAt(Coord(rand(rs)), Coord(rand(rand(rs))), rand(rand(rs)))

AttemptOf == [rs \in 0..RAND_MAX |-> Attempt(rs)]

\* whether the attempt made from generator state rs is retried
Rejected(rs) == Retry(AttemptOf[rs].s)

\* xx = x * t; yy = y * t with t = sqrt(-2 log(s) / s): kept as (x, s), (y, s)
Accept(a) ==
    [ok |-> TRUE, x |-> a.x, y |-> a.y, s |-> a.s, rs |-> a.rs, tries |-> 1]

\* SampleNormal2D run from generator state rs.  The generator has period
\* RAND_MAX + 1: a loop that has not left after that many attempts never
\* leaves (ok = FALSE).
SampleNormal2DFrom[rs \in 0..RAND_MAX, fuel \in 0..(RAND_MAX + 1)] ==
    IF fuel = 0
    THEN [ok |-> FALSE, x |-> 0, y |-> 0, s |-> 0, rs |-> rs, tries |-> 0]
    ELSE IF Rejected(rs)
    THEN [SampleNormal2DFrom[AttemptOf[rs].rs, fuel - 1] EXCEPT !.tries = @ + 1]
    ELSE Accept(AttemptOf[rs])

SampleNormal2D(rs) == SampleNormal2DFrom[rs, RAND_MAX + 1]

\* ------------------------------------------------- tensors
RECURSIVE ProdFrom(_, _)
ProdFrom(shape, i) ==
    IF i > Len(shape) THEN 1 ELSE shape[i] * ProdFrom(shape, i + 1)

\* Shape::MSize(): stride_ * shape[1] * ... (size_t: no wrap at these sizes)
MSize(shape, stride) == stride * ProdFrom(shape, 2)

\* Tensor::FlatTo2D(): inner axis shape[0], outer axis the product of the rest
FlatTo2D(t) ==
    [off |-> t.off, shape0 |-> t.shape[1], shape1 |-> ProdFrom(t.shape, 2),
     stride |-> t.stride]

Count(mat) == mat.shape0 * mat.shape1

\* Tensor<cpu, 2>::operator[]: mat[i][j] is at dptr + i * stride + j
Addr(mat, i, j) == mat.off + i * mat.stride + j

\* variant of the loop nest: the k-th element written is dptr[k]
ElemIdxDense(mat, k) == Addr(mat, 0, k)

\* the loop nest for i < mat.shape[1], for j < mat.shape[0]: the k-th element
\* written is mat[i][j] with i = k / shape[0], j = k % shape[0]
ElemIdx(mat, k) == Addr(mat, k \div mat.shape0, k % mat.shape0)

ElemSet(mat) == {ElemIdx(mat, k) : k \in 0..(Count(mat) - 1)}

\* a write past the end of an allocation of `size` elements
Overruns(mat, size) == \E idx \in ElemSet(mat) : idx >= size

\* a stored value: t = "u" (n = the real_t value), "g" (mu + (n*t(s))*sigma,
\* p1 = mu, p2 = sigma), "cu"/"cn" (the n-th curand variate of the generator
\* seeded s, with parameters p1, p2), "none" (never written)
Val(t, n, p1, p2, s) == [t |-> t, n |-> n, p1 |-> p1, p2 |-> p2, s |-> s]
NoVal == Val("none", 0, 0, 0, 0)
Raw == [by |-> 0, v |-> NoVal]
Cell(call, v) == [by |-> call, v |-> v]

NoTensor == [off |-> 0, shape |-> <<0>>, stride |-> 0, call |-> 0]

\* ------------------------------------------------- inputs
Engines == {1, 2}
Devices == {"cpu", "gpu"}
Seeds == {1, 2}
\* kRandBufferSize is set in tensor.h; the model is checked for these values
BufferSizes == {8, 9}
Shapes == {<<2>>, <<3, 2>>, <<10>>, <<IndexMod - 1>>}
\* the caller's destination: 3 x 2, leading stride 4, 8 elements
DstTensor == [off |-> 0, shape |-> <<3, 2>>, stride |-> 4, call |-> 0]
DstSize == MSize(DstTensor.shape, DstTensor.stride)
UniformArgs == {<<ToReal(0), ToReal(1)>>, <<ToReal(1), ToReal(2)>>}
GaussianArgs == {<<ToReal(0), ToReal(1)>>, <<ToReal(1), ToReal(2)>>}

\* ------------------------------------------------- state
VARIABLES
    proc,            \* "running", or how the process ended
    kRandBufferSize, \* the scratch buffer's capacity
    rand_state,      \* libc's generator state (srand/rand)
    eng,             \* the engines
    dst,             \* the caller's destination tensor's memory
    clock,           \* number of sampling calls made so far
    last             \* the last operation
\* single elements: one SampleUniform store and one GetTemp stride
VARIABLES f_pc, f_a, f_b, f_r, f_shape0, f_val, f_stride
\* one SampleNormal2D call, statement by statement
VARIABLES
    n_pc,            \* "x", "y", "s", "while", "done"
    n_x, n_y, n_s,   \* the locals x, y, s
    n_draws,         \* RandNext2 calls made
    n_attempts,      \* passes through the loop body begun
    n_out            \* (xx, yy)

evars == <<proc, kRandBufferSize, rand_state, eng, dst, clock, last>>
fvars == <<f_pc, f_a, f_b, f_r, f_shape0, f_val, f_stride>>
nvars == <<n_pc, n_x, n_y, n_s, n_draws, n_attempts, n_out>>
vars == <<evars, fvars, nvars>>

\* ------------------------------------------------- the fill loops
\* Random<cpu>::SampleUniform, stdlib path: elements k, k+1, ... of mat
RECURSIVE CpuUniformFrom(_, _, _, _, _, _, _)
CpuUniformFrom(mem, mat, k, rs, a, b, call) ==
    IF k >= Count(mat)
    THEN [mem |-> mem, rs |-> rs, n2d |-> 0, ok |-> TRUE]
    ELSE CpuUniformFrom(
             [mem EXCEPT ![ElemIdx(mat, k)] =
                 Cell(call, Val("u", UniformValue(rand(rs), a, b), 0, 0, 0))],
             mat, k + 1, rand(rs), a, b, call)

\* variant of the pairing test: every second element written, across rows
FreshPairGlobal(mat, k) == k % 2 = 0

\* whether element k of mat takes a fresh pair: (j & 1) == 0
FreshPair(mat, k) == (k % mat.shape0) % 2 = 0

\* mat[i][j] = mu + g1 * sigma (a fresh pair) or mu + g2 * sigma
GaussianValue(fresh, p, mu, sigma) ==
    Val("g", IF fresh THEN p.x ELSE p.y, mu, sigma, p.s)

\* Random<cpu>::SampleGaussian, stdlib path: elements k, k+1, ... of mat; g is
\* the pair (g1, g2) in hand, n2d the number of SampleNormal2D calls made
RECURSIVE CpuGaussianFrom(_, _, _, _, _, _, _, _, _)
RECURSIVE CpuGaussianStore(_, _, _, _, _, _, _, _, _, _)
CpuGaussianFrom(mem, mat, k, g, rs, n2d, mu, sigma, call) ==
    IF k >= Count(mat)
    THEN [mem |-> mem, rs |-> rs, n2d |-> n2d, ok |-> TRUE]
    ELSE CpuGaussianStore(mem, mat, k, FreshPair(mat, k),
             IF FreshPair(mat, k) THEN SampleNormal2D(rs) ELSE g,
             rs, n2d, mu, sigma, call)

CpuGaussianStore(mem, mat, k, fresh, p, rs, n2d, mu, sigma, call) ==
    IF ~p.ok
    THEN [mem |-> mem, rs |-> p.rs, n2d |-> n2d + 1, ok |-> FALSE]
    ELSE CpuGaussianFrom(
             [mem EXCEPT ![ElemIdx(mat, k)] =
                 Cell(call, GaussianValue(fresh, p, mu, sigma))],
             mat, k + 1, p, IF fresh THEN p.rs ELSE rs,
             IF fresh THEN n2d + 1 ELSE n2d, mu, sigma, call)

NoPair == [ok |-> TRUE, x |-> 0, y |-> 0, s |-> 0, rs |-> 0, tries |-> 0]

\* Random<gpu>::SampleUniform / SampleGaussian: curand fills shape[0] values
\* per outer index from the engine's own generator (t = "cu": then
\* TransferUniform with a and b - a; t = "cn": with mu and sigma)
RECURSIVE GpuFrom(_, _, _, _, _, _, _, _)
GpuFrom(mem, mat, k, gen, t, p1, p2, call) ==
    IF k >= Count(mat)
    THEN [mem |-> mem, gen |-> gen]
    ELSE GpuFrom([mem EXCEPT ![ElemIdx(mat, k)] =
                     Cell(call, Val(t, gen.pos, p1, p2, gen.seed))],
                 mat, k + 1, [gen EXCEPT !.pos = @ + 1], t, p1, p2, call)

\* what a fill leaves: the memory, libc's generator state, the engine's
\* curand position, the number of SampleNormal2D calls, whether the loops ended
CpuResult(r, gen) ==
    [mem |-> r.mem, rs |-> r.rs, gen |-> gen, n2d |-> r.n2d, ok |-> r.ok]

GpuResult(r, rs) ==
    [mem |-> r.mem, rs |-> rs, gen |-> r.gen, n2d |-> 0, ok |-> TRUE]

\* SampleUniform(dst, a, b) of engine e on memory mem
FillUniform(e, mem, mat, a, b, call) ==
    IF eng[e].dev = "cpu"
    THEN CpuResult(CpuUniformFrom(mem, mat, 0, rand_state, a, b, call),
                   eng[e].gen)
    ELSE GpuResult(GpuFrom(mem, mat, 0, eng[e].gen, "cu", a, RSub(b, a), call),
                   rand_state)

\* SampleGaussian(dst, mu, sigma) of engine e on memory mem
FillGaussian(e, mem, mat, mu, sigma, call) ==
    IF eng[e].dev = "cpu"
    THEN CpuResult(CpuGaussianFrom(mem, mat, 0, NoPair, rand_state, 0,
                                   mu, sigma, call),
                   eng[e].gen)
    ELSE GpuResult(GpuFrom(mem, mat, 0, eng[e].gen, "cn", mu, sigma, call),
                   rand_state)

Fill(e, kind, mem, mat, p1, p2, call) ==
    IF kind \in {"SampleUniform", "uniform"}
    THEN FillUniform(e, mem, mat, p1, p2, call)
    ELSE FillGaussian(e, mem, mat, p1, p2, call)

\* the values an operation wrote, in the order it wrote them
Output(mem, mat) == [k \in 1..Count(mat) |-> mem[ElemIdx(mat, k - 1)].v]

\* ------------------------------------------------- GetTemp
TempAt(shape, stride, call) ==
    [off |-> 0, shape |-> shape, stride |-> stride, call |-> call]

\* variant of Random<cpu>::GetTemp: a request of exactly the capacity passes
GetTempCpuAtCapacity(e, shape, call) ==
    [ok |-> kRandBufferSize >= MSize(shape, PadStride(shape[1])),
     t  |-> TempAt(shape, PadStride(shape[1]), call)]

\* variant of Random<cpu>::GetTemp: the view starts after the engine's
\* previous temporary
GetTempCpuBump(e, shape, call) ==
    [ok |-> kRandBufferSize > MSize(shape, PadStride(shape[1])),
     t  |-> [TempAt(shape, PadStride(shape[1]), call) EXCEPT
                !.off = MSize(eng[e].temp.shape, eng[e].temp.stride)]]

\* Random<cpu>::GetTemp: the stride, the capacity assertion, the view at
\* buffer_.dptr
GetTempCpu(e, shape, call) ==
    [ok |-> kRandBufferSize > MSize(shape, PadStride(shape[1])),
     t  |-> TempAt(shape, PadStride(shape[1]), call)]

\* Random<gpu>::GetTemp: the stride and the view at buffer_.dptr
GetTempGpu(e, shape, call) ==
    [ok |-> TRUE, t |-> TempAt(shape, PadStride(shape[1]), call)]

GetTemp(e, shape, call) ==
    IF eng[e].dev = "cpu" THEN GetTempCpu(e, shape, call)
    ELSE GetTempGpu(e, shape, call)

\* ------------------------------------------------- Spec: the engines
NoEngine ==
    [live |-> FALSE, dev |-> "cpu", seed |-> 0, gen |-> [seed |-> 0, pos |-> 0],
     buffer |-> <<>>, temp |-> NoTensor, prev |-> NoTensor,
     calls |-> <<>>, outs |-> <<>>]

NoOp ==
    [e |-> 0, kind |-> "none", call |-> 0, t |-> NoTensor, p1 |-> 0, p2 |-> 0,
     r0 |-> 0, n2d |-> 0]

Op(e, kind, call, t, p1, p2, r0, n2d) ==
    [e |-> e, kind |-> kind, call |-> call, t |-> t, p1 |-> p1, p2 |-> p2,
     r0 |-> r0, n2d |-> n2d]

EngIdle ==
    /\ proc = "off"
    /\ kRandBufferSize = 0
    /\ rand_state = 0
    /\ eng = <<>>
    /\ dst = <<>>
    /\ clock = 0
    /\ last = NoOp

FnIdle ==
    /\ f_pc = "off"
    /\ f_a = 0
    /\ f_b = 0
    /\ f_r = 0
    /\ f_shape0 = 0
    /\ f_val = 0
    /\ f_stride = 0

NormIdle ==
    /\ n_pc = "off"
    /\ n_x = 0
    /\ n_y = 0
    /\ n_s = 0
    /\ n_draws = 0
    /\ n_attempts = 0
    /\ n_out = <<>>

Init ==
    /\ proc = "running"
    /\ kRandBufferSize \in BufferSizes
    /\ rand_state = srand(1)
    /\ eng = [e \in Engines |-> NoEngine]
    /\ dst = [i \in 0..(DstSize - 1) |-> Raw]
    /\ clock = 0
    /\ last = NoOp
    /\ FnIdle
    /\ NormIdle

\* Random<cpu>(seed) / Random<gpu>(seed)
Construct(e, dev, seed) ==
    /\ proc = "running"
    /\ ~eng[e].live
    /\ rand_state' = IF dev = "cpu" THEN srand(seed) ELSE rand_state
    /\ eng' = [eng EXCEPT ![e] =
                 [NoEngine EXCEPT !.live = TRUE, !.dev = dev, !.seed = seed,
                     !.gen = [seed |-> IF dev = "gpu" THEN seed ELSE 0,
                              pos |-> 0],
                     !.buffer = [i \in 0..(kRandBufferSize - 1) |-> Raw]]]
    /\ last' = Op(e, "construct", 0, NoTensor, seed, 0, rand_state, 0)
    /\ UNCHANGED <<proc, kRandBufferSize, dst, clock, fvars, nvars>>

\* the process ends in the middle of operation op: a fatal assertion, a write
\* past the scratch buffer, a loop that never ends
Stop(how, op) ==
    /\ proc' = how
    /\ last' = op
    /\ UNCHANGED <<rand_state, eng, dst, clock>>

\* the sampling call op of engine e on the caller's tensor returns, res being
\* what its fill left
DstDone(e, op, res) ==
    IF ~res.ok
    THEN Stop("hang", op)
    ELSE /\ dst' = res.mem
         /\ rand_state' = res.rs
         /\ eng' = [eng EXCEPT
                      ![e].gen = res.gen,
                      ![e].calls = Append(@, <<op.kind, op.t.shape, op.p1, op.p2>>),
                      ![e].outs = Append(@, Output(res.mem, FlatTo2D(op.t)))]
         /\ clock' = op.call
         /\ last' = [op EXCEPT !.n2d = res.n2d]
         /\ proc' = proc

\* Tensor<cpu, 2> mat = dst.FlatTo2D(); then the loops
DstFill(e, op) ==
    DstDone(e, op, Fill(e, op.kind, dst, FlatTo2D(op.t), op.p1, op.p2, op.call))

\* SampleUniform(dst, a, b) / SampleGaussian(dst, mu, sigma) on the caller's
\* tensor
SampleDst(e, kind, p1, p2) ==
    /\ proc = "running"
    /\ eng[e].live
    /\ clock < MaxCalls
    /\ DstFill(e, Op(e, kind, clock + 1, [DstTensor EXCEPT !.call = clock + 1],
                     p1, p2, rand_state, 0))
    /\ UNCHANGED <<kRandBufferSize, fvars, nvars>>

SampleUniform(e, a, b) == SampleDst(e, "SampleUniform", a, b)

SampleGaussian(e, mu, sigma) == SampleDst(e, "SampleGaussian", mu, sigma)

\* the call op of uniform(shape) / gaussian(shape) returns the temporary op.t,
\* res being what its fill left
TempDone(e, op, res) ==
    IF ~res.ok
    THEN Stop("hang", op)
    ELSE /\ rand_state' = res.rs
         /\ eng' = [eng EXCEPT
                      ![e].gen = res.gen,
                      ![e].buffer = res.mem,
                      ![e].prev = eng[e].temp,
                      ![e].temp = op.t,
                      ![e].calls = Append(@, <<op.kind, op.t.shape, op.p1, op.p2>>),
                      ![e].outs = Append(@, Output(res.mem, FlatTo2D(op.t)))]
         /\ clock' = op.call
         /\ last' = [op EXCEPT !.n2d = res.n2d]
         /\ proc' = proc
         /\ dst' = dst

\* this->SampleUniform(temp, 0.0f, 1.0f) / this->SampleGaussian(temp, 0.0f, 1.0f)
TempFill(e, op, ok) ==
    IF ~ok
    THEN Stop("fatal", op)
    ELSE IF Overruns(FlatTo2D(op.t), kRandBufferSize)
    THEN Stop("overrun", op)
    ELSE TempDone(e, op, Fill(e, op.kind, eng[e].buffer, FlatTo2D(op.t),
                              op.p1, op.p2, op.call))

\* Tensor<cpu,dim> temp = this->GetTemp(shape)
TempGot(e, kind, got) ==
    TempFill(e, Op(e, kind, got.t.call, got.t, ToReal(0), ToReal(1),
                   rand_state, 0),
             got.ok)

\* uniform(shape) / gaussian(shape)
SampleTemp(e, kind, shape) ==
    /\ proc = "running"
    /\ eng[e].live
    /\ clock < MaxCalls
    /\ TempGot(e, kind, GetTemp(e, shape, clock + 1))
    /\ UNCHANGED <<kRandBufferSize, fvars, nvars>>

uniform(e, shape) == SampleTemp(e, "uniform", shape)

gaussian(e, shape) == SampleTemp(e, "gaussian", shape)

Next ==
    \/ \E e \in Engines, dev \in Devices, seed \in Seeds : Construct(e, dev, seed)
    \/ \E e \in Engines, ab \in UniformArgs : SampleUniform(e, ab[1], ab[2])
    \/ \E e \in Engines, ms \in GaussianArgs : SampleGaussian(e, ms[1], ms[2])
    \/ \E e \in Engines, shape \in Shapes : uniform(e, shape)
    \/ \E e \in Engines, shape \in Shapes : gaussian(e, shape)

Spec == Init /\ [][Next]_vars

\* ------------------------------------------------- SpecFn: single elements
RealInputs == {ToReal(i) : i \in -2..2}

FnInit ==
    /\ f_pc = "start"
    /\ f_a \in RealInputs
    /\ f_b \in RealInputs
    /\ f_a < f_b
    /\ f_r \in 0..RAND_MAX
    /\ f_shape0 \in 0..(IndexMod - 1)
    /\ f_val = 0
    /\ f_stride = 0
    /\ EngIdle
    /\ NormIdle

\* one inner-loop step of SampleUniform with rand() = f_r
FnSampleUniform ==
    /\ f_pc = "start"
    /\ f_val' = UniformValue(f_r, f_a, f_b)
    /\ f_pc' = "sampled"
    /\ UNCHANGED <<f_a, f_b, f_r, f_shape0, f_stride, evars, nvars>>

\* the stride assignment of GetTemp on a shape with shape[0] = f_shape0
FnGetTemp ==
    /\ f_pc = "sampled"
    /\ f_stride' = PadStride(f_shape0)
    /\ f_pc' = "done"
    /\ UNCHANGED <<f_a, f_b, f_r, f_shape0, f_val, evars, nvars>>

FnNext == FnSampleUniform \/ FnGetTemp

SpecFn == FnInit /\ [][FnNext]_vars

\* ------------------------------------------------- SpecNormal: SampleNormal2D
NormInit ==
    /\ n_pc = "x"
    /\ n_x = 0
    /\ n_y = 0
    /\ n_s = 0
    /\ n_draws = 0
    /\ n_attempts = 0
    /\ n_out = <<>>
    /\ EngIdle
    /\ FnIdle

\* x = 2.0f * RandNext2() - 1.0f, rand() returning r
NormDrawX(r) ==
    /\ n_pc = "x"
    /\ n_attempts < MaxAttempts
    /\ n_x' = Coord(r)
    /\ n_draws' = n_draws + 1
    /\ n_attempts' = n_attempts + 1
    /\ n_pc' = "y"
    /\ UNCHANGED <<n_y, n_s, n_out, evars, fvars>>

\* y = 2.0f * RandNext2() - 1.0f, rand() returning r
NormDrawY(r) ==
    /\ n_pc = "y"
    /\ n_y' = Coord(r)
    /\ n_draws' = n_draws + 1
    /\ n_pc' = "s"
    /\ UNCHANGED <<n_x, n_s, n_attempts, n_out, evars, fvars>>

\* s = x*x + y*y
NormSum ==
    /\ n_pc = "s"
    /\ n_s' = SumSq(n_x, n_y)
    /\ n_pc' = "while"
    /\ UNCHANGED <<n_x, n_y, n_draws, n_attempts, n_out, evars, fvars>>

\* while( s >= 1.0f || s == 0.0f ): back to the body
NormRetry ==
    /\ n_pc = "while"
    /\ Retry(n_s)
    /\ n_pc' = "x"
    /\ UNCHANGED <<n_x, n_y, n_s, n_draws, n_attempts, n_out, evars, fvars>>

\* the loop is left: t = sqrt(-2 log(s) / s); xx = x * t; yy = y * t
NormReturn ==
    /\ n_pc = "while"
    /\ ~Retry(n_s)
    /\ n_out' = <<[n |-> n_x, s |-> n_s], [n |-> n_y, s |-> n_s]>>
    /\ n_pc' = "done"
    /\ UNCHANGED <<n_x, n_y, n_s, n_draws, n_attempts, evars, fvars>>

NormNext ==
    \/ \E r \in 0..RAND_MAX : NormDrawX(r)
    \/ \E r \in 0..RAND_MAX : NormDrawY(r)
    \/ NormSum
    \/ NormRetry
    \/ NormReturn

\* the code is sequential: once s is computed the loop test is executed
SpecNormal ==
    NormInit /\ [][NormNext]_vars /\ WF_vars(NormRetry) /\ WF_vars(NormReturn)

\* ------------------------------------------------- claims
TempKinds == {"uniform", "gaussian"}
GaussianKinds == {"SampleGaussian", "gaussian"}

\* the last operation was a temporary-returning call of an engine on dev
LastTempOn(dev) == last.kind \in TempKinds /\ eng[last.e].dev = dev

\* the padded element count GetTemp arrived at for the last operation's shape
LastPaddedCount == last.t.stride * ProdFrom(last.t.shape, 2)

\* C1: a temporary-returning call on a CPU engine ends the process with a
\* fatal assertion exactly when the padded element count (the padded leading
\* extent times the remaining extents) is at least the buffer capacity; a
\* request of capacity - 1 padded elements is served.
C1_CpuCapacity ==
    LastTempOn("cpu") =>
        ((proc = "fatal") <=> (LastPaddedCount >= kRandBufferSize))

C1_AtCapacityMinusOne ==
    /\ LastTempOn("cpu")
    /\ LastPaddedCount = kRandBufferSize - 1
    /\ proc = "running"
    /\ last.call = clock

\* C2: a temporary-returning call on a GPU engine whose padded element count
\* is at least the buffer capacity ends with the fatal assertion and fills
\* nothing.
C2_GpuCapacity ==
    (LastTempOn("gpu") /\ LastPaddedCount >= kRandBufferSize) => proc = "fatal"

\* the generator state engine a draws from
RngState(a) == IF eng[a].dev = "cpu" THEN <<rand_state>> ELSE <<eng[a].gen>>

\* C3: constructing or sampling from one engine leaves the generator state of
\* every other live engine as it was.
C3_Isolated ==
    [][\A a \in Engines :
          (eng[a].live /\ last'.e # a) => RngState(a)' = RngState(a)]_vars

\* C4: two engines of the same backend built with the same seed that have
\* received the same sequence of calls have produced the same outputs.
C4_Deterministic ==
    \A a, b \in Engines :
        (/\ eng[a].live
         /\ eng[b].live
         /\ eng[a].dev = eng[b].dev
         /\ eng[a].seed = eng[b].seed
         /\ eng[a].calls = eng[b].calls)
        => eng[a].outs = eng[b].outs

TensorElems(t) == ElemSet(FlatTo2D(t))

\* every element of the temporary t of engine e still holds what the call
\* that returned t wrote
Intact(e, t) == \A idx \in TensorElems(t) : eng[e].buffer[idx].by = t.call

\* C5: once an engine has returned a second temporary, both views start at
\* the base of its buffer, the region they share holds the second call's
\* values, the first temporary no longer holds its own values and the second
\* one does.
C5_Aliasing ==
    \A e \in Engines :
        eng[e].prev.call > 0 =>
            /\ eng[e].prev.off = 0
            /\ eng[e].temp.off = 0
            /\ TensorElems(eng[e].prev) \cap TensorElems(eng[e].temp) # {}
            /\ \A idx \in TensorElems(eng[e].prev) \cap TensorElems(eng[e].temp) :
                   eng[e].buffer[idx].by = eng[e].temp.call
            /\ ~Intact(e, eng[e].prev)
            /\ Intact(e, eng[e].temp)

C5_TwoTemporaries ==
    \E e \in Engines :
        /\ eng[e].prev.call > 0
        /\ eng[e].prev.shape # eng[e].temp.shape
        /\ proc = "running"

\* mat[i][j] of a tensor: i below the product of the outer extents, j below
\* the leading extent
StridedElems(t) ==
    {t.off + i * t.stride + j :
        i \in 0..(ProdFrom(t.shape, 2) - 1), j \in 0..(t.shape[1] - 1)}

\* C8: SampleUniform of a CPU engine on the caller's tensor writes every
\* element of the tensor and nothing else (the stride padding keeps its
\* content), and leaves every engine's scratch buffer and temporary as they
\* were.
C8_DstOnly ==
    [][(/\ last'.kind = "SampleUniform"
        /\ last'.call = clock'
        /\ clock' = clock + 1
        /\ eng[last'.e].dev = "cpu")
       => /\ \A e \in Engines :
                 /\ eng'[e].buffer = eng[e].buffer
                 /\ eng'[e].temp = eng[e].temp
          /\ \A idx \in DOMAIN dst :
                 IF idx \in StridedElems(last'.t)
                 THEN dst'[idx].by = last'.call
                 ELSE dst'[idx] = dst[idx]]_vars

C8_AfterTemporary ==
    /\ last.kind = "SampleUniform"
    /\ last.call = clock
    /\ eng[last.e].dev = "cpu"
    /\ eng[last.e].temp.call > 0
    /\ last.t.stride > last.t.shape[1]

\* the n-th SampleNormal2D result from generator state rs on
RECURSIVE NthPair(_, _)
NthPair(rs, n) ==
    IF n <= 1 THEN SampleNormal2D(rs)
    ELSE NthPair(SampleNormal2D(rs).rs, n - 1)

\* pairs drawn per outer index for a leading extent n
PairsPerRow(n) == (n + 1) \div 2

\* what position (i, j) holds when the pair p was drawn for it
PairedValue(p, j, mu, sigma) ==
    Val("g", IF j % 2 = 0 THEN p.x ELSE p.y, mu, sigma, p.s)

LastMem == IF last.kind = "gaussian" THEN eng[last.e].buffer ELSE dst

\* C9: a completed CPU SampleGaussian made ceil(n / 2) SampleNormal2D calls
\* per outer index (n the leading extent); positions 2k and 2k + 1 of an outer
\* index hold the first and the second value of that index's k-th pair, and
\* no value is carried from one outer index to the next.
C9_Pairing ==
    (/\ last.kind \in GaussianKinds
     /\ last.call = clock
     /\ eng[last.e].dev = "cpu")
    => /\ last.n2d = ProdFrom(last.t.shape, 2) * PairsPerRow(last.t.shape[1])
       /\ \A i \in 0..(ProdFrom(last.t.shape, 2) - 1) :
          \A j \in 0..(last.t.shape[1] - 1) :
              LastMem[last.t.off + i * last.t.stride + j].v =
                  PairedValue(NthPair(last.r0,
                                      i * PairsPerRow(last.t.shape[1])
                                          + (j \div 2) + 1),
                              j, last.p1, last.p2)

C9_OddRows ==
    /\ last.kind \in GaussianKinds
    /\ last.call = clock
    /\ eng[last.e].dev = "cpu"
    /\ last.t.shape[1] % 2 = 1
    /\ ProdFrom(last.t.shape, 2) >= 2

\* C10: SampleNormal2D goes back to the loop body whenever s >= 1 or s = 0,
\* returns only with 0 < s < 1, returns once an attempt has 0 < s < 1, and
\* has made exactly two uniform draws per attempt.
C10_Rejection ==
    /\ [](n_pc = "done" => (0 < n_s /\ n_s < Scale))
    /\ [](n_pc \in {"while", "done"} => n_draws = 2 * n_attempts)
    /\ [][(n_pc = "while" /\ (n_s >= Scale \/ n_s = 0)) => n_pc' = "x"]_vars
    /\ ((n_pc = "while" /\ 0 < n_s /\ n_s < Scale) ~> n_pc = "done")

C10_AcceptedAfterRetry ==
    /\ n_pc = "done"
    /\ n_attempts >= 2
    /\ n_out # <<>>

\* C6: every value SampleUniform stores lies in [a, b), for every generator
\* output 0..RAND_MAX.
C6_Range == f_pc # "start" => (f_a <= f_val /\ f_val < f_b)

\* the smallest multiple of 4 that is at least n
CeilTo4(n) == CHOOSE m \in 0..(n + 3) : m % 4 = 0 /\ m >= n

\* C7: the stride GetTemp gives a shape is the smallest multiple of 4 that
\* is at least the leading extent, up to the largest index value.
C7_Stride == f_pc = "done" => f_stride = CeilTo4(f_shape0)

====
